---------------------------- MODULE Spec2Model ----------------------------
(***************************************************************************)
(* A model of the geospatial projector (GeoSpatialManager, GeoSpatial.ts),  *)
(* of the clip / slice controller (NeRFLoader, NeRFLoader.ts), of the scene *)
(* navigation (SceneManager, scenes.ts; goToScene, main.ts) and of the      *)
(* model controls of the UIManager of the memoryblocks viewer.              *)
(*                                                                          *)
(* Real numbers that the claims compare exactly (scales, clip bounds,       *)
(* slice-plane offsets) are exact rationals <<numerator, denominator>>.     *)
(* Angles and trigonometry are fixed point: radians in microradians, the    *)
(* cosine in thousandths from a table over a grid of whole degrees, metres  *)
(* as integers.                                                             *)
(***************************************************************************)
EXTENDS Integers, Sequences, FiniteSets, TLC

VARIABLES
    origin,              \* GeoSpatialManager.origin: a GeoLocation or Null
    platformConstraints, \* NeRFLoader.platformConstraints
    scale,               \* modelContainer.scale, [x, y, z] of rationals
    position,            \* modelContainer.position, [x, y, z] of integers
    currentModel,        \* NeRFLoader.currentModel: a splat id or NoModel
    children,            \* the splats among modelContainer.children
    disposed,            \* the splats whose dispose() has been called
    polling,             \* splats whose waitForModelAndAutoScale is still polling
    geometry,            \* TRUE when the current model has got its meshes and materials
    clippingEnabled,     \* NeRFLoader.clippingEnabled
    clipPlanes,          \* NeRFLoader.clipPlanes: the material clip planes
    materialPlanes,      \* TRUE when the current model's materials hold clipPlanes
    clipUniforms,        \* NeRFLoader.clipUniforms: [min, max] or Undefined
    sliceEnabled,        \* NeRFLoader.sliceEnabled
    slicePlanes,         \* NeRFLoader.slicePlanes: the six slice distances
    sliceUniforms,       \* NeRFLoader.sliceUniforms: six vec4 or Undefined
    hooks,               \* the shader hooks installed on the current model
    last,                \* the last call made and the value it returned
    currentSceneIndex,   \* SceneManager.currentSceneIndex
    currentScene,        \* SceneManager.currentScene: a scene or Null
    pending,             \* the loadScene calls waiting at `await loadNeRFModel`
    source,              \* the URL each splat was created from
    isLoadingScene,      \* main.ts: isLoadingScene
    modelYOffset,        \* UIManager.state.modelYOffset
    attempts             \* waitForModelAndAutoScale: `attempts` of each poll

\* The state of the application around the loader, and the poll counters
appVars == <<currentSceneIndex, currentScene, pending, source, isLoadingScene,
             modelYOffset, attempts>>

vars == <<origin, platformConstraints, scale, position, currentModel, children,
          disposed, polling,
          geometry, clippingEnabled, clipPlanes, materialPlanes, clipUniforms,
          sliceEnabled, slicePlanes, sliceUniforms, hooks, last,
          currentSceneIndex, currentScene, pending, source, isLoadingScene,
          modelYOffset, attempts>>

\* null and undefined are records of their own, comparable with every record,
\* tuple and function of the model
Null == [null |-> TRUE]
Undefined == [undefined |-> TRUE]
NoModel == 0

----------------------------------------------------------------------------
(* Exact rationals <<n, d>> with d > 0 and gcd(n, d) = 1.                   *)

Abs(n) == IF n < 0 THEN -n ELSE n

RECURSIVE GCD(_, _)
GCD(a, b) == IF b = 0 THEN a ELSE GCD(b, a % b)

Rat(n, d) ==
    LET s == IF d < 0 THEN -1 ELSE 1
        g == GCD(Abs(n), Abs(d))
    IN  <<(s * n) \div g, (s * d) \div g>>

Int2Rat(n) == <<n, 1>>
RZero == <<0, 1>>
RNeg(a) == <<-a[1], a[2]>>
RAdd(a, b) == Rat(a[1] * b[2] + b[1] * a[2], a[2] * b[2])
RMul(a, b) == Rat(a[1] * b[1], a[2] * b[2])
RDiv(a, b) == Rat(a[1] * b[2], a[2] * b[1])
RLt(a, b) == a[1] * b[2] < b[1] * a[2]
RMax(a, b) == IF RLt(a, b) THEN b ELSE a

Vec3(x, y, z) == [x |-> x, y |-> y, z |-> z]

----------------------------------------------------------------------------
(* GeoSpatialManager                                                        *)

EARTH_RADIUS == 6371000

\* THREE.MathUtils.DEG2RAD = pi / 180, in microradians per degree
DEG2RAD == 17453

\* The location grid: whole degrees, whole metres.  The grid stays off the
\* poles, where Math.cos(pi / 2) is 6.1e-17 and not a whole thousandth.
MaxAltitude == 650

Latitudes == {-30, 0, 60}
Longitudes == {0, 30}
Altitudes == {0, MaxAltitude}

\* `altitude?: number`: the field is optional
GeoLocation ==
    [latitude : Latitudes, longitude : Longitudes]
    \cup [latitude : Latitudes, longitude : Longitudes, altitude : Altitudes]

\* The locations distances are asked between (the distance ignores altitude)
DistanceLocations == [latitude : Latitudes, longitude : Longitudes]

\* `location.altitude || 0`
AltitudeOr0(location) ==
    IF "altitude" \in DOMAIN location THEN location.altitude ELSE 0

degToRad(degrees) == degrees * DEG2RAD

\* Math.cos of an angle in microradians, in thousandths; the angles the grid
\* produces are multiples of 15 degrees below a right angle.
CosTable == [d \in {0, 15, 30, 45, 60, 90, 120} |->
               CASE d = 0 -> 1000 [] d = 15 -> 966 [] d = 30 -> 866
                 [] d = 45 -> 707 [] d = 60 -> 500 [] d = 90 -> 0
                 [] d = 120 -> -500]
cos(rad) == CosTable[Abs(rad) \div DEG2RAD]

\* a / b rounded towards zero (fixed-point rescaling, odd-symmetric like
\* the floating-point product it stands for)
TruncDiv(a, b) == IF a < 0 THEN -((-a) \div b) ELSE a \div b

setOrigin(st, location) == [st EXCEPT !.origin = location]

\* geoToScene re-anchoring the frame on every call
geoToSceneStateReanchored(st, location) == setOrigin(st, location)

\* The state geoToScene leaves behind
geoToSceneState(st, location) ==
    IF st.origin = Null THEN setOrigin(st, location) ELSE st

\* geoToScene answering as if every location were the origin
geoToSceneAtOrigin(st, location) == Vec3(0, AltitudeOr0(location), 0)

\* geoToScene with north on +Z: z = north rather than -north
geoToSceneNorthPositive(st, location) ==
    IF st.origin = Null
    THEN Vec3(0, AltitudeOr0(location), 0)
    ELSE LET lat0 == degToRad(st.origin.latitude)
             lon0 == degToRad(st.origin.longitude)
             lat  == degToRad(location.latitude)
             lon  == degToRad(location.longitude)
             x == TruncDiv(TruncDiv((lon - lon0) * cos((lat0 + lat) \div 2),
                                    1000), 1000) * (EARTH_RADIUS \div 1000)
             z == TruncDiv(lat - lat0, 1000) * (EARTH_RADIUS \div 1000)
             y == AltitudeOr0(location) - AltitudeOr0(st.origin)
         IN  Vec3(x, y, z)

\* The vector geoToScene returns (metres)
geoToScene(st, location) ==
    IF st.origin = Null
    THEN Vec3(0, AltitudeOr0(location), 0)
    ELSE LET lat0 == degToRad(st.origin.latitude)
             lon0 == degToRad(st.origin.longitude)
             lat  == degToRad(location.latitude)
             lon  == degToRad(location.longitude)
             \* microradians * thousandths -> milliradians, times R in km:
             \* metres
             x == TruncDiv(TruncDiv((lon - lon0) * cos((lat0 + lat) \div 2),
                                    1000), 1000) * (EARTH_RADIUS \div 1000)
             z == -(TruncDiv(lat - lat0, 1000) * (EARTH_RADIUS \div 1000))
             y == AltitudeOr0(location) - AltitudeOr0(st.origin)
         IN  Vec3(x, y, z)

\* Math.sin of an angle in microradians, in thousandths (odd-symmetric)
SinTable == [d \in {0, 15, 30, 45, 60} |->
               CASE d = 0 -> 0 [] d = 15 -> 259 [] d = 30 -> 500
                 [] d = 45 -> 707 [] d = 60 -> 866]
sin(rad) == IF rad < 0 THEN -SinTable[(-rad) \div DEG2RAD]
            ELSE SinTable[rad \div DEG2RAD]

\* Math.sqrt of a value in millionths, in thousandths (rounded down)
RECURSIVE SqrtBetween(_, _, _)
SqrtBetween(lo, hi, a) ==
    IF lo = hi THEN lo
    ELSE LET mid == (lo + hi + 1) \div 2
         IN  IF mid * mid <= a THEN SqrtBetween(mid, hi, a)
             ELSE SqrtBetween(lo, mid - 1, a)
sqrt(a) == SqrtBetween(0, 1000, a)

\* Math.atan2(y, x) for y, x >= 0 in thousandths, in microradians, to the
\* 5 degrees below: TanTable[k] is tan(5k degrees) in thousandths
TanTable == << 87, 176, 268, 364, 466, 577, 700, 839, 1000, 1192, 1428,
               1732, 2145, 2747, 3732, 5671, 11430 >>
atan2(y, x) ==
    IF x = 0 THEN (IF y = 0 THEN 0 ELSE degToRad(90))
    ELSE LET ks == {k \in 1..Len(TanTable) : y * 1000 >= TanTable[k] * x}
         IN  degToRad(5 * Cardinality(ks))

\* The haversine measured from the origin whenever one is set
calculateDistanceFromOrigin(st, loc1, loc2) ==
    LET from == IF st.origin = Null THEN loc1 ELSE st.origin
        lat1 == degToRad(from.latitude)
        lat2 == degToRad(loc2.latitude)
        deltaLat == lat2 - lat1
        deltaLon == degToRad(loc2.longitude - from.longitude)
        a == sin(deltaLat \div 2) * sin(deltaLat \div 2)
             + ((cos(lat1) * cos(lat2)) \div 1000)
               * ((sin(deltaLon \div 2) * sin(deltaLon \div 2)) \div 1000)
        c == 2 * atan2(sqrt(a), sqrt(1000000 - a))
    IN  TruncDiv(c, 1000) * (EARTH_RADIUS \div 1000)

\* Haversine distance in metres; of `this` the method reads EARTH_RADIUS only
calculateDistance(st, loc1, loc2) ==
    LET lat1 == degToRad(loc1.latitude)
        lat2 == degToRad(loc2.latitude)
        deltaLat == lat2 - lat1
        deltaLon == degToRad(loc2.longitude - loc1.longitude)
        \* millionths
        a == sin(deltaLat \div 2) * sin(deltaLat \div 2)
             + ((cos(lat1) * cos(lat2)) \div 1000)
               * ((sin(deltaLon \div 2) * sin(deltaLon \div 2)) \div 1000)
        c == 2 * atan2(sqrt(a), sqrt(1000000 - a))
    IN  TruncDiv(c, 1000) * (EARTH_RADIUS \div 1000)

\* reset leaving the origin where it is
resetKeeping(st) == st

reset(st) == [st EXCEPT !.origin = Null]

----------------------------------------------------------------------------
(* NeRFLoader: clip box                                                     *)

Vec3Rat(n) == Vec3(Int2Rat(n), Int2Rat(n), Int2Rat(n))

\* `clipHeight ?? height ?? size`
ClipHeightOf(pc) ==
    IF "clipHeight" \in DOMAIN pc THEN pc.clipHeight
    ELSE IF "height" \in DOMAIN pc THEN pc.height
    ELSE Int2Rat(pc.size)

\* THREE.Plane.setFromNormalAndCoplanarPoint: constant = -(normal . point)
makePlane(normal, point) ==
    [normal |-> normal,
     constant |-> RNeg(RAdd(RAdd(RMul(Int2Rat(normal.x), point.x),
                                 RMul(Int2Rat(normal.y), point.y)),
                            RMul(Int2Rat(normal.z), point.z)))]

createClippingPlanes(pc) ==
    LET halfSize   == Rat(pc.size, 2)
        clipHeight == ClipHeightOf(pc)
        floorY     == Int2Rat(pc.surfaceY)
    IN  << makePlane(Vec3(1, 0, 0),  Vec3(halfSize, floorY, RZero)),
           makePlane(Vec3(-1, 0, 0), Vec3(RNeg(halfSize), floorY, RZero)),
           makePlane(Vec3(0, 0, 1),  Vec3(RZero, floorY, halfSize)),
           makePlane(Vec3(0, 0, -1), Vec3(RZero, floorY, RNeg(halfSize))),
           makePlane(Vec3(0, -1, 0), Vec3(RZero, floorY, RZero)),
           makePlane(Vec3(0, 1, 0),  Vec3(RZero, RAdd(floorY, clipHeight), RZero)) >>

\* Bounds without the clip height: a box of no vertical extent
ClipBoundsFlat(pc, s) ==
    LET halfSize == RMul(Rat(pc.size, 2), s.x)
        floorY   == RMul(Int2Rat(pc.surfaceY), s.y)
    IN  [min |-> Vec3(RNeg(halfSize), floorY, RNeg(halfSize)),
         max |-> Vec3(halfSize, floorY, halfSize)]

\* The bounds refreshClipUniforms writes and getClipBounds computes for a
\* container scale s
ClipBoundsAt(pc, s) ==
    LET halfSize   == RMul(Rat(pc.size, 2), s.x)
        clipHeight == RMul(ClipHeightOf(pc), s.y)
        floorY     == RMul(Int2Rat(pc.surfaceY), s.y)
    IN  [min |-> Vec3(RNeg(halfSize), floorY, RNeg(halfSize)),
         max |-> Vec3(halfSize, RAdd(floorY, clipHeight), halfSize)]

applyClippingPlanes(st) ==
    IF st.currentModel = NoModel \/ ~st.clippingEnabled THEN st
    ELSE IF st.geometry
         THEN [st EXCEPT !.materialPlanes = TRUE]
         ELSE st

clearClippingFromMaterials(st) ==
    IF st.currentModel = NoModel THEN st
    ELSE [st EXCEPT !.materialPlanes = FALSE]

refreshClipUniforms(st) ==
    IF st.clipUniforms = Undefined \/ ~st.clippingEnabled THEN st
    ELSE [st EXCEPT !.clipUniforms = ClipBoundsAt(st.platformConstraints, st.scale)]

getClipBounds(st) ==
    IF st.clipUniforms # Undefined THEN st.clipUniforms
    ELSE ClipBoundsAt(st.platformConstraints, st.scale)

----------------------------------------------------------------------------
(* NeRFLoader: slice planes                                                 *)

SliceKeys == {"xNeg", "xPos", "yNeg", "yPos", "zNeg", "zPos"}

\* Math.max(s, 1e-6)
EPSILON == Rat(1, 1000000)

Vec4(x, y, z, w) == <<x, y, z, w>>

ensureSliceUniforms(st) ==
    IF st.sliceUniforms = Undefined
    THEN [st EXCEPT !.sliceUniforms = [i \in 1..6 |-> Vec4(0, 1, 0, RZero)]]
    ELSE st

\* The `planes` array updateSliceUniforms builds
ActivePlanes(sp, s) ==
    (IF sp.xPos # 0
     THEN << Vec4(1, 0, 0, RNeg(RDiv(Int2Rat(sp.xPos), RMax(s.x, EPSILON)))) >>
     ELSE << >>)
    \o (IF sp.xNeg # 0
        THEN << Vec4(-1, 0, 0, RDiv(Int2Rat(sp.xNeg), RMax(s.x, EPSILON))) >>
        ELSE << >>)
    \o (IF sp.yPos # 0
        THEN << Vec4(0, 1, 0, RNeg(RDiv(Int2Rat(sp.yPos), RMax(s.y, EPSILON)))) >>
        ELSE << >>)
    \o (IF sp.yNeg # 0
        THEN << Vec4(0, -1, 0, RDiv(Int2Rat(-sp.yNeg), RMax(s.y, EPSILON))) >>
        ELSE << >>)
    \o (IF sp.zPos # 0
        THEN << Vec4(0, 0, 1, RNeg(RDiv(Int2Rat(sp.zPos), RMax(s.z, EPSILON)))) >>
        ELSE << >>)
    \o (IF sp.zNeg # 0
        THEN << Vec4(0, 0, -1, RDiv(Int2Rat(-sp.zNeg), RMax(s.z, EPSILON))) >>
        ELSE << >>)

\* updateSliceUniforms leaving the slots past the active planes as they were
updateSliceUniformsUnpadded(st) ==
    IF st.sliceUniforms = Undefined THEN st
    ELSE LET planes == ActivePlanes(st.slicePlanes, st.scale)
         IN  [st EXCEPT !.sliceUniforms =
                 [i \in 1..6 |-> IF i <= Len(planes) THEN planes[i] ELSE @[i]]]

\* The state updateSliceUniforms leaves behind
updateSliceUniforms(st) ==
    IF st.sliceUniforms = Undefined THEN st
    ELSE LET planes == ActivePlanes(st.slicePlanes, st.scale)
         IN  [st EXCEPT !.sliceUniforms =
                 [i \in 1..6 |-> IF i <= Len(planes) THEN planes[i]
                                 ELSE Vec4(0, 0, 0, RZero)]]

\* updateSliceUniforms returning the number of uniform slots
updateSliceUniformsSlots(st) ==
    IF st.sliceUniforms = Undefined THEN 0 ELSE Len(st.sliceUniforms)

\* The number updateSliceUniforms returns
updateSliceUniformsCount(st) ==
    IF st.sliceUniforms = Undefined THEN 0
    ELSE Len(ActivePlanes(st.slicePlanes, st.scale))

\* setShaderHooks({}): no clip-box discard, no slice discard
NoHooks == [clip |-> FALSE, slice |-> FALSE]

\* updateShaderHooks creating the slice uniforms without filling them in
updateShaderHooksUnfilled(st, splat) ==
    LET target == IF splat # NoModel THEN splat ELSE st.currentModel
    IN  IF target = NoModel THEN st
        ELSE LET s1 == IF st.clippingEnabled /\ st.clipUniforms = Undefined
                       THEN refreshClipUniforms(
                              [st EXCEPT !.clipUniforms =
                                  [min |-> Vec3Rat(0), max |-> Vec3Rat(0)]])
                       ELSE st
                 s2 == IF s1.sliceEnabled THEN ensureSliceUniforms(s1) ELSE s1
             IN  [s2 EXCEPT !.hooks =
                     IF s1.sliceEnabled
                     THEN [clip |-> s1.clippingEnabled, slice |-> TRUE,
                           uSliceCount |-> updateSliceUniformsCount(s2)]
                     ELSE [clip |-> s1.clippingEnabled, slice |-> FALSE]]

updateShaderHooks(st, splat) ==
    LET target == IF splat # NoModel THEN splat ELSE st.currentModel
    IN  IF target = NoModel THEN st
        ELSE LET s1 == IF st.clippingEnabled /\ st.clipUniforms = Undefined
                       THEN refreshClipUniforms(
                              [st EXCEPT !.clipUniforms =
                                  [min |-> Vec3Rat(0), max |-> Vec3Rat(0)]])
                       ELSE st
                 s2 == IF s1.sliceEnabled THEN ensureSliceUniforms(s1) ELSE s1
                 s3 == IF s1.sliceEnabled THEN updateSliceUniforms(s2) ELSE s2
             IN  [s3 EXCEPT !.hooks =
                     IF s1.sliceEnabled
                     THEN [clip |-> s1.clippingEnabled, slice |-> TRUE,
                           uSliceCount |-> updateSliceUniformsCount(s2)]
                     ELSE [clip |-> s1.clippingEnabled, slice |-> FALSE]]

----------------------------------------------------------------------------
(* NeRFLoader: public operations, as functions from the loader's state (a   *)
(* record of all the variables but `last`) to the state they leave behind.  *)

setClippingEnabled(st, enabled) ==
    LET s0 == [st EXCEPT !.clippingEnabled = enabled]
        s1 == IF ~enabled
              THEN IF s0.currentModel # NoModel
                   THEN clearClippingFromMaterials(
                          [s0 EXCEPT !.hooks = NoHooks])
                   ELSE s0
              ELSE IF s0.currentModel # NoModel
                   THEN refreshClipUniforms(applyClippingPlanes(s0))
                   ELSE s0
    IN  updateShaderHooks(s1, NoModel)

\* setSlicePlane forgetting the distances when it switches slicing off
setSlicePlaneClearing(st, enabled, sliceHeight) ==
    LET s0 == [st EXCEPT !.sliceEnabled = enabled]
        s1 == IF ~enabled
              THEN [s0 EXCEPT !.slicePlanes = [k \in SliceKeys |-> 0]]
              ELSE IF sliceHeight # << >>
                   THEN [s0 EXCEPT !.slicePlanes.yPos = sliceHeight[1]]
                   ELSE s0
    IN  updateShaderHooks(updateSliceUniforms(s1), NoModel)

\* The optional sliceHeight is a sequence of at most one distance
setSlicePlane(st, enabled, sliceHeight) ==
    LET s0 == [st EXCEPT !.sliceEnabled = enabled]
        s1 == IF sliceHeight # << >>
              THEN [s0 EXCEPT !.slicePlanes.yPos = sliceHeight[1]]
              ELSE s0
    IN  updateShaderHooks(updateSliceUniforms(s1), NoModel)

\* setSlicePlanes taking `values` for the whole record: a key it does not
\* name goes back to 0
setSlicePlanesReplacing(st, values) ==
    LET s0 == [st EXCEPT !.sliceEnabled = TRUE,
                         !.slicePlanes = [k \in SliceKeys |->
                             IF k \in DOMAIN values THEN values[k] ELSE 0]]
    IN  updateShaderHooks(updateSliceUniforms(s0), NoModel)

\* `values` is a function from some of the SliceKeys to distances
setSlicePlanes(st, values) ==
    LET s0 == [st EXCEPT !.sliceEnabled = TRUE,
                         !.slicePlanes = [k \in SliceKeys |->
                             IF k \in DOMAIN values THEN values[k] ELSE @[k]]]
    IN  updateShaderHooks(updateSliceUniforms(s0), NoModel)

\* disposeCurrentModel forgetting the model without removing or disposing it
disposeCurrentModelKeeping(st) ==
    IF st.currentModel = NoModel THEN st
    ELSE [st EXCEPT !.currentModel = NoModel,
                    !.geometry = FALSE,
                    !.materialPlanes = FALSE,
                    !.hooks = NoHooks]

disposeCurrentModel(st) ==
    IF st.currentModel = NoModel THEN st
    ELSE [st EXCEPT !.currentModel = NoModel,
                    !.children = @ \ {st.currentModel},
                    !.disposed = @ \cup {st.currentModel},
                    !.geometry = FALSE,
                    !.materialPlanes = FALSE,
                    !.hooks = NoHooks]

\* positionModelByGeo taking every located scene as the new origin
positionModelByGeoReanchoring(st, location) ==
    applyClippingPlanes([setOrigin(st, location) EXCEPT
        !.position = Vec3(0, st.platformConstraints.surfaceY, 0)])

getCurrentModel(st) == st.currentModel

positionModelByGeo(st, location) ==
    LET s1 == IF st.origin = Null
              THEN [setOrigin(st, location) EXCEPT
                      !.position = Vec3(0, st.platformConstraints.surfaceY, 0)]
              ELSE LET scenePos == geoToScene(st, location)
                   IN  [geoToSceneState(st, location) EXCEPT
                          !.position = [scenePos EXCEPT
                                          !.y = st.platformConstraints.surfaceY]]
    IN  applyClippingPlanes(s1)

\* `splat` is the identity of the LumaSplatsThree the call creates
loadNeRFModel(st, splat, location) ==
    LET s0 == disposeCurrentModel(st)
        \* a new object: it is among the children and not disposed
        s1 == [s0 EXCEPT !.children = @ \cup {splat},
                         !.disposed = @ \ {splat},
                         !.currentModel = splat]
        s2 == IF location # Undefined THEN positionModelByGeo(s1, location) ELSE s1
        \* waitForModelAndAutoScale(splat): the first check finds no geometry
        s3 == [s2 EXCEPT !.polling = @ \cup {splat}]
    IN  updateShaderHooks(s3, splat)

\* 90% of the platform size, the margin of waitForModelAndAutoScale
MarginTenths == 9

\* The auto-scale fitting every model to the platform, small ones too
waitForModelAndAutoScaleFitting(st, splat, maxDimension) ==
    LET limit == Rat(st.platformConstraints.size * MarginTenths, 10)
        scaleFactor == RDiv(limit, Int2Rat(maxDimension))
        s1 == [st EXCEPT !.polling = @ \ {splat},
                         !.scale = Vec3(RMul(@.x, scaleFactor),
                                        RMul(@.y, scaleFactor),
                                        RMul(@.z, scaleFactor))]
        s2 == IF s1.clippingEnabled
              THEN refreshClipUniforms(applyClippingPlanes(s1))
              ELSE s1
    IN  updateShaderHooks(s2, NoModel)

\* The rest of waitForModelAndAutoScale(splat) once the poll found geometry;
\* maxDimension is Math.max(size.x, size.z) of the splat's bounding box
waitForModelAndAutoScale(st, splat, maxDimension) ==
    LET limit == Rat(st.platformConstraints.size * MarginTenths, 10)
        s0 == [st EXCEPT !.polling = @ \ {splat}]
        s1 == IF RLt(limit, Int2Rat(maxDimension))
              THEN LET scaleFactor == RDiv(limit, Int2Rat(maxDimension))
                   IN  [s0 EXCEPT !.scale = Vec3(RMul(@.x, scaleFactor),
                                                 RMul(@.y, scaleFactor),
                                                 RMul(@.z, scaleFactor))]
              ELSE s0
        s2 == IF s1.clippingEnabled
              THEN refreshClipUniforms(applyClippingPlanes(s1))
              ELSE s1
    IN  updateShaderHooks(s2, NoModel)

\* waitForModelAndAutoScale(splat) giving up after maxAttempts polls
waitForModelTimeout(st, splat) == [st EXCEPT !.polling = @ \ {splat}]

setPosition(st, x, y, z) ==
    LET s0 == [st EXCEPT !.position = Vec3(x, y, z)]
        s1 == IF s0.clippingEnabled THEN refreshClipUniforms(s0) ELSE s0
    IN  updateShaderHooks(s1, NoModel)

setScale(st, s) ==
    LET s0 == [st EXCEPT !.scale = Vec3(s, s, s)]
    IN  IF s0.clippingEnabled THEN refreshClipUniforms(s0) ELSE s0

\* The helper box is a debug wireframe outside the model; what is left of the
\* call is its refresh of the clip uniforms
setClipHelperVisible(st, visible) ==
    IF ~st.clippingEnabled THEN st
    ELSE refreshClipUniforms(st)

dispose(st) ==
    LET s0 == disposeCurrentModel(st)
    IN  reset([s0 EXCEPT !.clipUniforms = Undefined, !.clipPlanes = << >>])

----------------------------------------------------------------------------
(* State machine                                                            *)

Self ==
    [origin |-> origin, platformConstraints |-> platformConstraints,
     scale |-> scale, position |-> position, currentModel |-> currentModel,
     children |-> children, disposed |-> disposed,
     polling |-> polling, geometry |-> geometry,
     clippingEnabled |-> clippingEnabled, clipPlanes |-> clipPlanes,
     materialPlanes |-> materialPlanes, clipUniforms |-> clipUniforms,
     sliceEnabled |-> sliceEnabled,
     slicePlanes |-> slicePlanes, sliceUniforms |-> sliceUniforms,
     hooks |-> hooks]

\* The loader and the GeoSpatialManager take the state st
CommitLoader(st) ==
    /\ origin' = st.origin
    /\ platformConstraints' = st.platformConstraints
    /\ scale' = st.scale
    /\ position' = st.position
    /\ currentModel' = st.currentModel
    /\ children' = st.children
    /\ disposed' = st.disposed
    /\ polling' = st.polling
    /\ geometry' = st.geometry
    /\ clippingEnabled' = st.clippingEnabled
    /\ clipPlanes' = st.clipPlanes
    /\ materialPlanes' = st.materialPlanes
    /\ clipUniforms' = st.clipUniforms
    /\ sliceEnabled' = st.sliceEnabled
    /\ slicePlanes' = st.slicePlanes
    /\ sliceUniforms' = st.sliceUniforms
    /\ hooks' = st.hooks

\* A call made on the loader or the GeoSpatialManager directly
Commit(st) ==
    /\ CommitLoader(st)
    /\ UNCHANGED appVars

Call(op, arg, value) == [op |-> op, arg |-> arg, value |-> value]

\* main.ts: PLATFORM_SIZE 30, PLATFORM_HEIGHT 1.2, surfaceY 0
MainConstraints ==
    [size |-> 30, height |-> Rat(12, 10), surfaceY |-> 0]

\* The constructor's default: size 60, height 1.5, surfaceY 0
DefaultConstraints ==
    [size |-> 60, height |-> Rat(15, 10), surfaceY |-> 0]

\* The state the NeRFLoader constructor (with a fresh GeoSpatialManager) leaves,
\* for a container of scale s
ConstructedWith(pc, s) ==
    /\ origin = Null
    /\ platformConstraints = pc
    /\ scale = s
    /\ position = Vec3(0, 0, 0)
    /\ currentModel = NoModel
    /\ children = {}
    /\ disposed = {}
    /\ polling = {}
    /\ geometry = FALSE
    /\ clippingEnabled = TRUE
    /\ clipPlanes = createClippingPlanes(pc)
    /\ materialPlanes = FALSE
    /\ clipUniforms = Undefined
    /\ sliceEnabled = FALSE
    /\ slicePlanes = [k \in SliceKeys |-> 0]
    /\ sliceUniforms = Undefined
    /\ hooks = NoHooks
    /\ last = Call("constructor", Undefined, Undefined)
    /\ currentSceneIndex = -1
    /\ currentScene = Null
    /\ pending = << >>
    /\ source = [m \in {} |-> ""]
    /\ isLoadingScene = FALSE
    /\ modelYOffset = 0
    /\ attempts = [m \in {} |-> 0]

\* A new THREE.Group has scale (1, 1, 1)
Init == ConstructedWith(MainConstraints, Vec3Rat(1))

(* Direct calls on the GeoSpatialManager *)

SetOrigin(location) ==
    /\ Commit(setOrigin(Self, location))
    /\ last' = Call("setOrigin", location, Undefined)

GetOrigin ==
    /\ Commit(Self)
    /\ last' = Call("getOrigin", Undefined, origin)

GeoToScene(location) ==
    /\ Commit(geoToSceneState(Self, location))
    /\ last' = Call("geoToScene", location, geoToScene(Self, location))

CalculateDistance(loc1, loc2) ==
    /\ Commit(Self)
    /\ last' = Call("calculateDistance", <<loc1, loc2>>,
                    calculateDistance(Self, loc1, loc2))

Reset ==
    /\ Commit(reset(Self))
    /\ last' = Call("reset", Undefined, Undefined)

NextGeo ==
    \/ \E location \in GeoLocation : SetOrigin(location)
    \/ GetOrigin
    \/ \E location \in GeoLocation : GeoToScene(location)
    \/ \E loc1, loc2 \in DistanceLocations : CalculateDistance(loc1, loc2)
    \/ Reset

SpecGeo == Init /\ [][NextGeo]_vars

(* The same calls with coordinates no place on Earth has among the inputs *)

\* Latitude 120 and longitude 210 are out of range
CoordLatitudes == {0, 60, 120}
CoordLongitudes == {90, 210}
CoordLocations ==
    [latitude : CoordLatitudes, longitude : CoordLongitudes]
    \cup [latitude : CoordLatitudes, longitude : CoordLongitudes,
          altitude : {MaxAltitude}]

NextCoords ==
    \/ \E location \in CoordLocations : SetOrigin(location)
    \/ \E location \in CoordLocations : GeoToScene(location)
    \/ GetOrigin
    \/ Reset

SpecCoords == Init /\ [][NextCoords]_vars

(* Calls on the NeRFLoader, and the steps of its pending auto-scale polls *)

\* Bounds of the loader's inputs
MaxModels == 2          \* splats alive at once: the current one and old polls
MaxSliceDistance == 5   \* the non-zero slice distance
MaxPartialKeys == 1     \* keys one setSlicePlanes call names
SmallModelSize == 10    \* a bounding box that fits the platform
LargeModelSize == 108   \* a bounding box that does not
MaxShrink == 4          \* auto-scale is followed down to 1 / MaxShrink

SliceDistances == {0, MaxSliceDistance}
\* The partial records setSlicePlanes is called with, over some of the keys
SliceValues(keys) ==
    UNION {[ks -> SliceDistances] :
             ks \in {k \in SUBSET keys : Cardinality(k) <= MaxPartialKeys}}
SliceHeights == {<< >>} \cup {<<d>> : d \in SliceDistances}
SceneLocation == [latitude |-> 30, longitude |-> 0, altitude |-> MaxAltitude]

\* The inputs of the clip-box specification: every scale, a slice on +X
ClipInputs ==
    [splats |-> 1..MaxModels,
     scales |-> {RZero, Int2Rat(1), Int2Rat(2)},
     sizes |-> {SmallModelSize, LargeModelSize},
     locations |-> {Undefined, SceneLocation},
     positions |-> {Vec3(0, 1, 0)},
     sliceValues |-> SliceValues({"xPos"}),
     sliceHeights |-> {<< >>}]

\* The inputs of the slice specification: all six distances, one splat
SliceInputs ==
    [splats |-> {1},
     scales |-> {Int2Rat(1), Int2Rat(2)},
     sizes |-> {SmallModelSize},
     locations |-> {Undefined},
     positions |-> {Vec3(0, 0, 0)},
     sliceValues |-> SliceValues(SliceKeys),
     sliceHeights |-> SliceHeights]

LoadNeRFModel(splats, location) ==
    /\ splats \ polling # {}
    /\ LET splat == CHOOSE m \in splats \ polling :
                        \A n \in splats \ polling : m <= n
       IN  Commit(loadNeRFModel(Self, splat, location))
    /\ UNCHANGED last

\* The Luma splat builds its geometry some time after its creation.  Only the
\* current model's geometry is tracked: whether a disposed splat still gets
\* any is left open.
GeometryArrives ==
    /\ currentModel # NoModel
    /\ ~geometry
    /\ geometry' = TRUE
    /\ UNCHANGED <<origin, platformConstraints, scale, position, currentModel,
                   children, disposed,
                   polling, clippingEnabled, clipPlanes, materialPlanes,
                   clipUniforms, sliceEnabled, slicePlanes,
                   sliceUniforms, hooks, last>>
    /\ UNCHANGED appVars

AutoScale(splat, maxDimension) ==
    /\ splat \in polling
    /\ splat = currentModel => geometry
    /\ LET st == waitForModelAndAutoScale(Self, splat, maxDimension)
       IN  /\ st.scale.x = RZero
              \/ ~RLt(RMul(st.scale.x, Int2Rat(MaxShrink)), Int2Rat(1))
           /\ Commit(st)
    /\ UNCHANGED last

AutoScaleTimeout(splat) ==
    /\ splat \in polling
    /\ splat = currentModel => ~geometry
    /\ Commit(waitForModelTimeout(Self, splat))
    /\ UNCHANGED last

DisposeCurrentModel ==
    /\ Commit(disposeCurrentModel(Self))
    /\ UNCHANGED last

SetClippingEnabled(enabled) ==
    /\ Commit(setClippingEnabled(Self, enabled))
    /\ UNCHANGED last

SetClipHelperVisible(visible) ==
    /\ Commit(setClipHelperVisible(Self, visible))
    /\ UNCHANGED last

SetSlicePlane(enabled, sliceHeight) ==
    /\ Commit(setSlicePlane(Self, enabled, sliceHeight))
    /\ UNCHANGED last

SetSlicePlanes(values) ==
    /\ Commit(setSlicePlanes(Self, values))
    /\ UNCHANGED last

SetPosition(p) ==
    /\ Commit(setPosition(Self, p.x, p.y, p.z))
    /\ UNCHANGED last

SetScale(s) ==
    /\ Commit(setScale(Self, s))
    /\ UNCHANGED last

Dispose ==
    /\ Commit(dispose(Self))
    /\ UNCHANGED last

NextWith(in) ==
    \/ \E location \in in.locations : LoadNeRFModel(in.splats, location)
    \/ GeometryArrives
    \/ \E splat \in in.splats, size \in in.sizes : AutoScale(splat, size)
    \/ \E splat \in in.splats : AutoScaleTimeout(splat)
    \/ DisposeCurrentModel
    \/ \E enabled \in BOOLEAN : SetClippingEnabled(enabled)
    \/ \E visible \in BOOLEAN : SetClipHelperVisible(visible)
    \/ \E enabled \in BOOLEAN, h \in in.sliceHeights : SetSlicePlane(enabled, h)
    \/ \E values \in in.sliceValues : SetSlicePlanes(values)
    \/ \E p \in in.positions : SetPosition(p)
    \/ \E s \in in.scales : SetScale(s)
    \/ Dispose

Next == NextWith(ClipInputs)
Spec == Init /\ [][Next]_vars

NextSlice == NextWith(SliceInputs)
SpecSlice == Init /\ [][NextSlice]_vars

(* The clip-bounds computation on its own: the container (handed out by     *)
(* getContainer) carries any per-axis scale, and the loader computes the    *)
(* bounds for it.                                                           *)

\* A platform with a raised floor and an explicit clip height
RaisedConstraints ==
    [size |-> 20, height |-> Int2Rat(2), surfaceY |-> 1, clipHeight |-> Int2Rat(8)]

Configs == {MainConstraints, DefaultConstraints, RaisedConstraints}
ScaleComponents == {Rat(1, 2), Int2Rat(1), Int2Rat(2)}
ScaleVectors == [x : ScaleComponents, y : ScaleComponents, z : ScaleComponents]

InitBounds == \E pc \in Configs : ConstructedWith(pc, Vec3Rat(1))

\* getContainer().scale.set(sx, sy, sz): the caller scales the group it was
\* handed; the loader is not told
ContainerScaleSet(s) ==
    /\ scale' = s
    /\ UNCHANGED <<origin, platformConstraints, position, currentModel,
                   children, disposed,
                   polling, geometry, clippingEnabled, clipPlanes,
                   materialPlanes, clipUniforms, sliceEnabled, slicePlanes,
                   sliceUniforms, hooks, last>>
    /\ UNCHANGED appVars

NextBounds ==
    \/ \E s \in ScaleVectors : ContainerScaleSet(s)
    \/ LoadNeRFModel({1}, Undefined)
    \/ AutoScaleTimeout(1)
    \/ \E enabled \in BOOLEAN : SetClippingEnabled(enabled)
    \/ \E p \in {Vec3(0, 1, 0)} : SetPosition(p)

SpecBounds == InitBounds /\ [][NextBounds]_vars

(* The loader's calls with each call recorded in `last`, over every sign of *)
(* the container scale.                                                     *)

CallKeys == {"xPos", "yPos", "zNeg"}
CallScales == {Int2Rat(-2), RZero, Int2Rat(2)}

LoadNeRFModelCall(splat) ==
    /\ splat \notin polling
    /\ Commit(loadNeRFModel(Self, splat, Undefined))
    /\ last' = Call("loadNeRFModel", splat, Undefined)

AutoScaleTimeoutCall(splat) ==
    /\ splat \in polling
    /\ Commit(waitForModelTimeout(Self, splat))
    /\ last' = Call("waitForModelAndAutoScale", splat, Undefined)

DisposeCurrentModelCall ==
    /\ Commit(disposeCurrentModel(Self))
    /\ last' = Call("disposeCurrentModel", Undefined, Undefined)

SetClippingEnabledCall(enabled) ==
    /\ Commit(setClippingEnabled(Self, enabled))
    /\ last' = Call("setClippingEnabled", enabled, Undefined)

SetScaleCall(s) ==
    /\ Commit(setScale(Self, s))
    /\ last' = Call("setScale", s, Undefined)

SetSlicePlanesCall(values) ==
    /\ Commit(setSlicePlanes(Self, values))
    /\ last' = Call("setSlicePlanes", values, Undefined)

SetSlicePlaneCall(enabled, sliceHeight) ==
    /\ Commit(setSlicePlane(Self, enabled, sliceHeight))
    /\ last' = Call("setSlicePlane", <<enabled, sliceHeight>>, Undefined)

SetPositionCall(p) ==
    /\ Commit(setPosition(Self, p.x, p.y, p.z))
    /\ last' = Call("setPosition", p, Undefined)

NextCalls ==
    \/ LoadNeRFModelCall(1)
    \/ AutoScaleTimeoutCall(1)
    \/ DisposeCurrentModelCall
    \/ \E enabled \in BOOLEAN : SetClippingEnabledCall(enabled)
    \/ \E s \in CallScales : SetScaleCall(s)
    \/ \E values \in SliceValues(CallKeys) : SetSlicePlanesCall(values)
    \/ \E enabled \in BOOLEAN, h \in SliceHeights : SetSlicePlaneCall(enabled, h)
    \/ \E p \in {Vec3(0, 1, 0)} : SetPositionCall(p)

SpecCalls == Init /\ [][NextCalls]_vars

(* The loader built with any platform constraints, the sizes and heights    *)
(* of no platform among them                                                *)

ConfigSizes == {-30, 0, 30}
ConfigHeights == {Int2Rat(-1), RZero, Rat(12, 10)}
ConfigInputs ==
    [size : ConfigSizes, height : ConfigHeights, surfaceY : {0}]
    \cup [size : ConfigSizes, height : {Rat(12, 10)}, surfaceY : {0},
          clipHeight : ConfigHeights]

InitConfig == \E pc \in ConfigInputs : ConstructedWith(pc, Vec3Rat(1))

NextConfig ==
    \/ LoadNeRFModelCall(1)
    \/ AutoScaleTimeoutCall(1)
    \/ DisposeCurrentModelCall
    \/ \E enabled \in BOOLEAN : SetClippingEnabledCall(enabled)
    \/ \E s \in {Int2Rat(1), Int2Rat(2)} : SetScaleCall(s)

SpecConfig == InitConfig /\ [][NextConfig]_vars

(* The auto-scale poll followed attempt by attempt *)

\* const maxAttempts = 100
maxAttempts == 100

\* checkLoaded(): the current model has its meshes or not; a replaced splat
\* may have kept the meshes it had
hasGeometry(splat) == IF splat = currentModel THEN {geometry} ELSE BOOLEAN

LoadPolled(splat) ==
    /\ splat \notin polling
    /\ CommitLoader(loadNeRFModel(Self, splat, Undefined))
    /\ attempts' = [m \in DOMAIN attempts \cup {splat} |->
                      IF m = splat THEN 0 ELSE attempts[m]]
    /\ last' = Call("loadNeRFModel", splat, Undefined)
    /\ UNCHANGED <<currentSceneIndex, currentScene, pending, source,
                   isLoadingScene, modelYOffset>>

\* The Luma splat of the current model builds its meshes
MeshesArrive ==
    /\ currentModel # NoModel
    /\ ~geometry
    /\ CommitLoader([Self EXCEPT !.geometry = TRUE])
    /\ last' = Call("meshes", currentModel, Undefined)
    /\ UNCHANGED appVars

\* One turn of the loop: checkLoaded() is false, 100 ms pass, attempts++
PollFindsNothing(splat) ==
    /\ splat \in polling
    /\ attempts[splat] < maxAttempts
    /\ FALSE \in hasGeometry(splat)
    /\ attempts' = [attempts EXCEPT ![splat] = @ + 1]
    /\ CommitLoader(Self)
    /\ last' = Call("checkLoaded", splat, FALSE)
    /\ UNCHANGED <<currentSceneIndex, currentScene, pending, source,
                   isLoadingScene, modelYOffset>>

\* checkLoaded() is true: the loop breaks and the rest of the method runs
PollFindsGeometry(splat, maxDimension) ==
    /\ splat \in polling
    /\ attempts[splat] < maxAttempts
    /\ TRUE \in hasGeometry(splat)
    /\ LET st == waitForModelAndAutoScale(Self, splat, maxDimension)
       IN  /\ st.scale.x = RZero
              \/ ~RLt(RMul(st.scale.x, Int2Rat(MaxShrink)), Int2Rat(1))
           /\ CommitLoader(st)
    /\ last' = Call("waitForModelAndAutoScale", <<splat, maxDimension>>, TRUE)
    /\ UNCHANGED appVars

\* attempts >= maxAttempts: `Model loading timeout - skipping auto-scale`
PollGivesUp(splat) ==
    /\ splat \in polling
    /\ attempts[splat] >= maxAttempts
    /\ CommitLoader(waitForModelTimeout(Self, splat))
    /\ last' = Call("waitForModelAndAutoScale", <<splat, 0>>, FALSE)
    /\ UNCHANGED appVars

NextPoll ==
    \/ LoadPolled(1)
    \/ MeshesArrive
    \/ PollFindsNothing(1)
    \/ \E size \in {SmallModelSize, LargeModelSize} : PollFindsGeometry(1, size)
    \/ PollGivesUp(1)
    \/ \E s \in {Int2Rat(1), Int2Rat(2)} : SetScaleCall(s)
    \/ \E enabled \in BOOLEAN : SetClippingEnabledCall(enabled)

SpecPoll == Init /\ [][NextPoll]_vars

(* Scenes loaded one after the other (scenes.ts: loadNeRFModel with the     *)
(* scene's location), the Reset Origin button and dispose, every call       *)
(* recorded in `last`                                                       *)

SceneLocations ==
    {SceneLocation,
     [latitude |-> 0, longitude |-> 30],
     [latitude |-> 60, longitude |-> 0, altitude |-> 0]}

InitScenes ==
    \E pc \in {MainConstraints, RaisedConstraints} :
        ConstructedWith(pc, Vec3Rat(1))

LoadSceneCall(splat, location) ==
    /\ splat \notin polling
    /\ Commit(loadNeRFModel(Self, splat, location))
    /\ last' = Call("loadNeRFModel", <<splat, location>>, Undefined)

ResetOriginCall ==
    /\ Commit(reset(Self))
    /\ last' = Call("reset", Undefined, Undefined)

DisposeCall ==
    /\ Commit(dispose(Self))
    /\ last' = Call("dispose", Undefined, Undefined)

NextScenes ==
    \/ \E splat \in 1..MaxModels, location \in SceneLocations \cup {Undefined} :
          LoadSceneCall(splat, location)
    \/ \E splat \in 1..MaxModels : AutoScaleTimeoutCall(splat)
    \/ DisposeCurrentModelCall
    \/ \E p \in {Vec3(0, 1, 0)} : SetPositionCall(p)
    \/ ResetOriginCall
    \/ DisposeCall

SpecScenes == InitScenes /\ [][NextScenes]_vars

----------------------------------------------------------------------------
(* SceneManager (scenes.ts) and the timeline navigation of main.ts          *)

\* The scene database: three captures, all at one location
NARRATIVE_SCENES ==
    << [id |-> "brc2010", url |-> "capture/94af1531", location |-> SceneLocation],
       [id |-> "orange-burger", url |-> "capture/e2ff62ba", location |-> SceneLocation],
       [id |-> "art-hotel", url |-> "capture/d4f9fc1b", location |-> SceneLocation] >>

\* NARRATIVE_SCENES.length
SceneCount == Len(NARRATIVE_SCENES)

\* The lookup answering an index out of range with the nearest scene
getSceneByIndexClamped(index) ==
    IF index < 0 THEN NARRATIVE_SCENES[1]
    ELSE IF index >= SceneCount THEN NARRATIVE_SCENES[SceneCount]
    ELSE NARRATIVE_SCENES[index + 1]

\* NARRATIVE_SCENES[index], the indices of the code counting from 0
getSceneByIndex(index) ==
    IF index \in 0..(SceneCount - 1) THEN NARRATIVE_SCENES[index + 1]
    ELSE Undefined

\* NARRATIVE_SCENES.findIndex(s => s.id === id), -1 when there is none
findIndex(id) ==
    LET found == {i \in 0..(SceneCount - 1) : NARRATIVE_SCENES[i + 1].id = id}
    IN  IF found = {} THEN -1
        ELSE CHOOSE i \in found : \A j \in found : i <= j

\* NARRATIVE_SCENES.find(scene => scene.id === id)
getSceneById(id) == getSceneByIndex(findIndex(id))

\* The next index stopping at the last scene
nextIndexClamped(index) ==
    IF index + 1 >= SceneCount THEN SceneCount - 1 ELSE index + 1

\* (this.currentSceneIndex + 1) % NARRATIVE_SCENES.length
nextIndex(index) == (index + 1) % SceneCount

prevIndex(index) == IF index <= 0 THEN SceneCount - 1 ELSE index - 1

\* Bounds of the navigation's inputs
MaxPending == 2         \* loadScene calls waiting for their continuation
SceneIndices == -1..SceneCount
SceneIds == {NARRATIVE_SCENES[i].id : i \in 1..SceneCount} \cup {"nowhere"}

\* loadScene whose continuation overtakes the continuations already waiting
loadSceneBeginsOvertaking(scene, index, caller) ==
    /\ Len(pending) < MaxPending
    /\ (1..MaxModels) \ polling # {}
    /\ LET splat == CHOOSE m \in (1..MaxModels) \ polling :
                        \A n \in (1..MaxModels) \ polling : m <= n
       IN  /\ CommitLoader(loadNeRFModel(Self, splat, scene.location))
           /\ source' = [m \in DOMAIN source \cup {splat} |->
                           IF m = splat THEN scene.url ELSE source[m]]
    /\ pending' = <<[scene |-> scene, index |-> index,
                     caller |-> caller, loaded |-> TRUE]>> \o pending
    /\ UNCHANGED <<currentSceneIndex, currentScene, modelYOffset, attempts>>

\* loadScene(scene, index) up to its `await`: loadNeRFModel runs to its end
\* and hands back the splat it created; what follows the await waits in
\* `pending`, in the order of the calls (the continuations are microtasks)
loadSceneBegins(scene, index, caller) ==
    /\ Len(pending) < MaxPending
    /\ (1..MaxModels) \ polling # {}
    /\ LET splat == CHOOSE m \in (1..MaxModels) \ polling :
                        \A n \in (1..MaxModels) \ polling : m <= n
       IN  /\ CommitLoader(loadNeRFModel(Self, splat, scene.location))
           /\ source' = [m \in DOMAIN source \cup {splat} |->
                           IF m = splat THEN scene.url ELSE source[m]]
    /\ pending' = Append(pending, [scene |-> scene, index |-> index,
                                   caller |-> caller, loaded |-> TRUE])
    /\ UNCHANGED <<currentSceneIndex, currentScene, modelYOffset, attempts>>

\* `throw new Error(... not found)`: the call rejects and touches nothing
notFound ==
    /\ CommitLoader(Self)
    /\ UNCHANGED <<currentSceneIndex, currentScene, source, modelYOffset,
                   attempts>>

LoadSceneByIndex(index) ==
    /\ LET scene == getSceneByIndex(index)
       IN  IF scene = Undefined
           THEN /\ notFound
                /\ UNCHANGED pending
                /\ last' = Call("loadSceneByIndex", index, "not found")
           ELSE /\ loadSceneBegins(scene, index, "loadSceneByIndex")
                /\ last' = Call("loadSceneByIndex", index, "loading")
    /\ UNCHANGED isLoadingScene

LoadSceneById(id) ==
    /\ LET scene == getSceneById(id)
       IN  IF scene = Undefined
           THEN /\ notFound
                /\ UNCHANGED pending
                /\ last' = Call("loadSceneById", id, "not found")
           ELSE /\ loadSceneBegins(scene, findIndex(id), "loadSceneById")
                /\ last' = Call("loadSceneById", id, "loading")
    /\ UNCHANGED isLoadingScene

\* The index computed is always one of a scene
LoadNextScene ==
    /\ loadSceneBegins(getSceneByIndex(nextIndex(currentSceneIndex)),
                       nextIndex(currentSceneIndex), "loadNextScene")
    /\ last' = Call("loadNextScene", currentSceneIndex, "loading")
    /\ UNCHANGED isLoadingScene

LoadPreviousScene ==
    /\ loadSceneBegins(getSceneByIndex(prevIndex(currentSceneIndex)),
                       prevIndex(currentSceneIndex), "loadPreviousScene")
    /\ last' = Call("loadPreviousScene", currentSceneIndex, "loading")
    /\ UNCHANGED isLoadingScene

\* goToScene without the isLoadingScene test
GoToSceneUnguarded(index) ==
    IF currentSceneIndex = index
    THEN /\ notFound
         /\ UNCHANGED <<pending, isLoadingScene>>
         /\ last' = Call("goToScene", index, "returned")
    ELSE /\ isLoadingScene' = TRUE
         /\ LET scene == getSceneByIndex(index)
            IN  IF scene = Undefined
                THEN /\ Len(pending) < MaxPending
                     /\ notFound
                     /\ pending' = Append(pending,
                           [scene |-> Undefined, index |-> index,
                            caller |-> "goToScene", loaded |-> FALSE])
                     /\ last' = Call("goToScene", index, "not found")
                ELSE /\ loadSceneBegins(scene, index, "goToScene")
                     /\ last' = Call("goToScene", index, "loading")

\* main.ts goToScene(index) up to its `await`
GoToScene(index) ==
    IF isLoadingScene \/ currentSceneIndex = index
    THEN /\ notFound
         /\ UNCHANGED <<pending, isLoadingScene>>
         /\ last' = Call("goToScene", index, "returned")
    ELSE /\ isLoadingScene' = TRUE
         /\ LET scene == getSceneByIndex(index)
            IN  IF scene = Undefined
                THEN /\ Len(pending) < MaxPending
                     /\ notFound
                     /\ pending' = Append(pending,
                           [scene |-> Undefined, index |-> index,
                            caller |-> "goToScene", loaded |-> FALSE])
                     /\ last' = Call("goToScene", index, "not found")
                ELSE /\ loadSceneBegins(scene, index, "goToScene")
                     /\ last' = Call("goToScene", index, "loading")

\* The continuation of the oldest waiting call: loadScene records the scene
\* and calls onSceneChanged, then goToScene's `finally` runs; a rejected
\* goToScene runs its catch and `finally` only
Resumes ==
    /\ pending # << >>
    /\ LET call == Head(pending)
       IN  /\ IF call.loaded
              THEN /\ currentScene' = call.scene
                   /\ currentSceneIndex' = call.index
                   /\ last' = Call("onSceneChanged",
                                   <<call.scene, call.index>>, call.caller)
              ELSE /\ UNCHANGED <<currentScene, currentSceneIndex>>
                   /\ last' = Call("catch", call.index, call.caller)
           /\ isLoadingScene' = IF call.caller = "goToScene" THEN FALSE
                                 ELSE isLoadingScene
    /\ pending' = Tail(pending)
    /\ CommitLoader(Self)
    /\ UNCHANGED <<source, modelYOffset, attempts>>

\* The poll of a splat gives up (the splats of the model get no geometry)
PollEnds(splat) ==
    /\ splat \in polling
    /\ CommitLoader(waitForModelTimeout(Self, splat))
    /\ last' = Call("waitForModelAndAutoScale", splat, Undefined)
    /\ UNCHANGED appVars

NextApp ==
    \/ \E index \in SceneIndices : LoadSceneByIndex(index)
    \/ \E id \in SceneIds : LoadSceneById(id)
    \/ LoadNextScene
    \/ LoadPreviousScene
    \/ \E index \in SceneIndices : GoToScene(index)
    \/ Resumes
    \/ \E splat \in 1..MaxModels : PollEnds(splat)

SpecApp == Init /\ [][NextApp]_vars

(* The model controls of the UIManager *)

MaxYOffset == 5         \* the Y Offset slider goes from -MaxYOffset to MaxYOffset
YOffsets == {-MaxYOffset, 0, MaxYOffset}

\* The Y Offset slider's onChange(value)
YOffsetChanged(value) ==
    /\ CommitLoader([Self EXCEPT !.position.y = @ + (value - modelYOffset)])
    /\ modelYOffset' = value
    /\ last' = Call("yOffsetSlider", value, Undefined)
    /\ UNCHANGED <<currentSceneIndex, currentScene, pending, source,
                   isLoadingScene, attempts>>

\* The Reset Transforms button
ResetModelTransforms ==
    /\ CommitLoader([setScale(Self, Int2Rat(1)) EXCEPT !.position.y = 0])
    /\ modelYOffset' = 0
    /\ last' = Call("resetModelTransforms", Undefined, Undefined)
    /\ UNCHANGED <<currentSceneIndex, currentScene, pending, source,
                   isLoadingScene, attempts>>

NextUI ==
    \/ \E value \in YOffsets : YOffsetChanged(value)
    \/ ResetModelTransforms
    \/ \E index \in 0..(SceneCount - 1) : LoadSceneByIndex(index)
    \/ Resumes
    \/ \E splat \in 1..MaxModels : PollEnds(splat)

SpecUI == Init /\ [][NextUI]_vars

----------------------------------------------------------------------------
(* Claims                                                                   *)

GeoReads == {"geoToScene", "calculateDistance", "getOrigin"}

\* C1: once the origin is non-null, geoToScene, calculateDistance and
\* getOrigin calls leave it as it is; the origin changes only through
\* setOrigin, reset, or a geoToScene call made while it is null.
C1_OriginStable ==
    [][ /\ (origin # Null /\ last'.op \in GeoReads) => origin' = origin
        /\ origin' # origin =>
             \/ last'.op \in {"setOrigin", "reset"}
             \/ last'.op = "geoToScene" /\ origin = Null ]_vars

\* A geoToScene call for another location than the origin has returned
C1_Witness ==
    /\ last.op = "geoToScene"
    /\ origin # Null
    /\ origin # last.arg

\* Two locations are different places: they differ in latitude, longitude or
\* altitude (an absent altitude being 0)
Different(a, b) ==
    \/ a.latitude # b.latitude
    \/ a.longitude # b.longitude
    \/ AltitudeOr0(a) # AltitudeOr0(b)

\* C2: geoToScene with a null origin makes its argument the origin and
\* returns (0, altitude or 0, 0); geoToScene for a different location with the
\* origin set returns a non-zero offset and leaves the origin alone.
C2_AutoOrigin ==
    [][ last'.op = "geoToScene" =>
          IF origin = Null
          THEN /\ origin' = last'.arg
               /\ last'.value = Vec3(0, AltitudeOr0(last'.arg), 0)
          ELSE Different(last'.arg, origin) =>
                 /\ last'.value # Vec3(0, 0, 0)
                 /\ origin' = origin ]_vars

\* The second call: another location converted against the origin, with a
\* non-zero east offset
C2_Witness ==
    /\ last.op = "geoToScene"
    /\ origin # Null
    /\ Different(last.arg, origin)
    /\ last.value.x # 0
    /\ last.value.y # 0

Loaded == currentModel # NoModel

\* C3: whenever clipping is enabled and a model is loaded, the clip bounds
\* handed to the shader are the bounds formula at the container's current
\* scale.
C3_ClipBoundsFresh ==
    (clippingEnabled /\ Loaded /\ hooks.clip) =>
        clipUniforms = ClipBoundsAt(platformConstraints, scale)

\* What updateSliceUniforms writes for distances sp at scale s
FreshSliceUniforms(sp, s) ==
    LET planes == ActivePlanes(sp, s)
    IN  [i \in 1..6 |-> IF i <= Len(planes) THEN planes[i] ELSE Vec4(0, 0, 0, RZero)]

\* C4: when the container scale changes while slicing is enabled with a
\* non-zero distance, the slice planes given to the shader are recomputed for
\* the new scale.
C4_SliceFreshAfterScale ==
    [][ ( /\ scale' # scale
          /\ Loaded' /\ sliceEnabled' /\ hooks'.slice
          /\ \E k \in SliceKeys : slicePlanes'[k] # 0 )
        => sliceUniforms' = FreshSliceUniforms(slicePlanes', scale') ]_vars

\* C5: while clipping is disabled the loaded model has neither the clip-box
\* discard (shader or material planes) nor a slice discard (no active slice
\* plane in its shader); the step that enables clipping applies both again,
\* computed for the current scale.
C5_DisabledMeansNoDiscard ==
    [][ /\ (~clippingEnabled' /\ Loaded') =>
              /\ ~hooks'.clip
              /\ hooks'.slice => hooks'.uSliceCount = 0
              /\ ~materialPlanes'
        /\ (~clippingEnabled /\ clippingEnabled' /\ Loaded') =>
              /\ hooks'.clip
              /\ clipUniforms' = ClipBoundsAt(platformConstraints', scale')
              /\ sliceEnabled' =>
                   /\ hooks'.slice
                   /\ sliceUniforms' = FreshSliceUniforms(slicePlanes', scale') ]_vars

\* The bounds of the specification for a scale (sx, sy, sz): half-width h,
\* clip height H, floor f
SpecClipBounds(pc, s) ==
    LET h == Rat(pc.size, 2)
        H == ClipHeightOf(pc)
        f == Int2Rat(pc.surfaceY)
    IN  [min |-> Vec3(RNeg(RMul(h, s.x)), RMul(f, s.y), RNeg(RMul(h, s.z))),
         max |-> Vec3(RMul(h, s.x), RAdd(RMul(f, s.y), RMul(H, s.y)), RMul(h, s.z))]

\* C6: the clip bounds are min = (-h sx, f sy, -h sz) and
\* max = (h sx, f sy + H sy, h sz): X extents follow sx, Z extents sz.
C6_ClipBoundsFormula ==
    getClipBounds(Self) = SpecClipBounds(platformConstraints, scale)

VecLt(a, b) == RLt(a.x, b.x) /\ RLt(a.y, b.y) /\ RLt(a.z, b.z)

\* C7 as stated: in every reachable state the clip bounds have min < max in
\* every component.
C7_MinBelowMax == VecLt(getClipBounds(Self).min, getClipBounds(Self).max)

\* C7 as amended: whenever the clip bounds are written at a container scale
\* whose components are all positive, they have min < max in every component.
C7_MinBelowMaxPositive ==
    [][ ( /\ clipUniforms' # Undefined
          /\ clipUniforms' # clipUniforms
          /\ RLt(RZero, scale'.x) /\ RLt(RZero, scale'.y) /\ RLt(RZero, scale'.z) )
        => VecLt(clipUniforms'.min, clipUniforms'.max) ]_vars

\* Bounds written for the model at a positive scale other than 1
C7_Witness ==
    /\ Loaded
    /\ clipUniforms # Undefined
    /\ RLt(RZero, scale.x)
    /\ scale.x # Int2Rat(1)
    /\ clipUniforms = ClipBoundsAt(platformConstraints, scale)

\* The box the six material planes bound: each plane n . p + c = 0 is
\* axis-aligned and cuts its axis at -c / n
PlaneCut(plane) ==
    RDiv(RNeg(plane.constant),
         Int2Rat(plane.normal.x + plane.normal.y + plane.normal.z))
PlaneBox(planes) ==
    [min |-> Vec3(PlaneCut(planes[2]), PlaneCut(planes[5]), PlaneCut(planes[4])),
     max |-> Vec3(PlaneCut(planes[1]), PlaneCut(planes[6]), PlaneCut(planes[3]))]

\* C8: the six clipping planes on the model's materials bound the same box
\* as the clip bounds given to the shader, at every scale.
C8_PlanesMatchBounds ==
    (clippingEnabled /\ Loaded /\ materialPlanes /\ hooks.clip /\ Len(clipPlanes) = 6)
        => PlaneBox(clipPlanes) = clipUniforms

NonZeroKeys == {k \in SliceKeys : slicePlanes[k] # 0}

\* C9: the slice count given to the shader is the number of non-zero slice
\* distances, between 0 and 6.
C9_SliceCount ==
    hooks.slice =>
        /\ hooks.uSliceCount = Cardinality(NonZeroKeys)
        /\ hooks.uSliceCount \in 0..6

\* Slicing on, with some distances zero and some not
C9_Witness ==
    /\ hooks.slice
    /\ hooks.uSliceCount = 3
    /\ slicePlanes.xPos = 0

SliceOrder == << "xPos", "xNeg", "yPos", "yNeg", "zPos", "zNeg" >>
SliceNormal ==
    [xPos |-> <<1, 0, 0>>, xNeg |-> <<-1, 0, 0>>, yPos |-> <<0, 1, 0>>,
     yNeg |-> <<0, -1, 0>>, zPos |-> <<0, 0, 1>>, zNeg |-> <<0, 0, -1>>]
ActiveOrder ==
    LET IsActive(k) == slicePlanes[k] # 0 IN SelectSeq(SliceOrder, IsActive)

\* C10: the i-th non-zero distance in the order xPos, xNeg, yPos, yNeg, zPos,
\* zNeg has its plane in uniform slot i, and every slot from the active count
\* on holds the zero plane.
C10_SliceOrder ==
    sliceUniforms # Undefined =>
        \A i \in 1..6 :
            IF i <= Len(ActiveOrder)
            THEN <<sliceUniforms[i][1], sliceUniforms[i][2], sliceUniforms[i][3]>>
                     = SliceNormal[ActiveOrder[i]]
            ELSE sliceUniforms[i] = Vec4(0, 0, 0, RZero)

\* -X, +Z and -Z active with +X off: slots 1 to 3 hold them in order
C10_Witness ==
    /\ sliceUniforms # Undefined
    /\ ActiveOrder = << "xNeg", "zPos", "zNeg" >>
    /\ sliceUniforms[1][1] = -1
    /\ sliceUniforms[3][3] = -1

\* The container scale component a slice key is compensated by
SliceScale(k) ==
    CASE k \in {"xPos", "xNeg"} -> scale.x
      [] k \in {"yPos", "yNeg"} -> scale.y
      [] k \in {"zPos", "zNeg"} -> scale.z

\* d / max(s, epsilon) for the distance and scale of key k
Compensated(k) == RDiv(Int2Rat(slicePlanes[k]), RMax(SliceScale(k), EPSILON))

\* The offset in the uniform slot that holds the plane of the active key k
SliceOffset(k) ==
    sliceUniforms[CHOOSE i \in 1..Len(ActiveOrder) : ActiveOrder[i] = k][4]

ActiveKeys(keys) == {k \in keys : slicePlanes[k] # 0}

\* C11: in freshly computed slice uniforms every positive-direction plane has
\* offset -(d/s), and the negative-direction planes follow one common rule:
\* all of them have offset d/s, or all of them have offset -(d/s).
C11_OneSignConvention ==
    (sliceUniforms # Undefined
       /\ sliceUniforms = FreshSliceUniforms(slicePlanes, scale)) =>
        /\ \A k \in ActiveKeys({"xPos", "yPos", "zPos"}) :
               SliceOffset(k) = RNeg(Compensated(k))
        /\ \/ \A k \in ActiveKeys({"xNeg", "yNeg", "zNeg"}) :
                  SliceOffset(k) = Compensated(k)
           \/ \A k \in ActiveKeys({"xNeg", "yNeg", "zNeg"}) :
                  SliceOffset(k) = RNeg(Compensated(k))

\* C12: setSlicePlanes(partial) overwrites exactly the distances partial
\* names, leaves the others as they were, and leaves sliceEnabled true.
C12_SetSlicePlanesFrame ==
    [][ last'.op = "setSlicePlanes" =>
          /\ sliceEnabled'
          /\ \A k \in SliceKeys :
                slicePlanes'[k] = IF k \in DOMAIN last'.arg
                                  THEN last'.arg[k]
                                  ELSE slicePlanes[k] ]_vars

\* setSlicePlanes({xPos: 0}) has returned with slicing switched on by it and
\* another distance left non-zero
C12_Witness ==
    /\ last.op = "setSlicePlanes"
    /\ last.arg = [k \in {"xPos"} |-> 0]
    /\ sliceEnabled
    /\ slicePlanes.xPos = 0
    /\ slicePlanes.zNeg # 0

\* C13: setSlicePlane(enabled, distance?) sets sliceEnabled to the flag and
\* yPos to the distance when one is given, and leaves every other distance as
\* it was; so setSlicePlane(true) after setSlicePlane(false) gives the shader
\* of the loaded model the planes of the same non-zero distances again.
C13_SetSlicePlaneFrame ==
    [][ last'.op = "setSlicePlane" =>
          LET enabled == last'.arg[1]
              sliceHeight == last'.arg[2]
          IN  /\ sliceEnabled' = enabled
              /\ \A k \in SliceKeys :
                    slicePlanes'[k] = IF k = "yPos" /\ sliceHeight # << >>
                                      THEN sliceHeight[1]
                                      ELSE slicePlanes[k]
              /\ ( /\ last.op = "setSlicePlane"
                    /\ last.arg = <<FALSE, << >> >>
                    /\ enabled /\ sliceHeight = << >>
                    /\ Loaded' )
                  => /\ hooks'.slice
                     /\ hooks'.uSliceCount = Cardinality(NonZeroKeys)
                     /\ sliceUniforms' = FreshSliceUniforms(slicePlanes, scale') ]_vars

\* setSlicePlane(true) has returned with two planes active in the shader,
\* neither of them +Y
C13_Witness ==
    /\ last.op = "setSlicePlane"
    /\ last.arg = <<TRUE, << >> >>
    /\ Loaded
    /\ hooks.slice
    /\ hooks.uSliceCount = 2
    /\ slicePlanes.yPos = 0

\* The six uniform slots holding the planes of `planes` and zero planes after
Slots(planes) ==
    [i \in 1..6 |-> IF i <= Len(planes) THEN planes[i] ELSE Vec4(0, 0, 0, RZero)]

\* C14: with every other distance 0 and a model loaded, setSlicePlanes({xPos:
\* d}) with d non-zero leaves exactly one active plane, normal (1, 0, 0) and
\* offset -(d / s) for the current X scale s, and setSlicePlanes({xPos: 0})
\* leaves none; so does every later repetition.
C14_EnableDisableIdempotent ==
    [][ ( /\ last'.op = "setSlicePlanes"
          /\ DOMAIN last'.arg = {"xPos"}
          /\ \A k \in SliceKeys \ {"xPos"} : slicePlanes[k] = 0
          /\ Loaded' )
        => LET d == last'.arg.xPos
           IN  IF d # 0
               THEN /\ hooks'.slice /\ hooks'.uSliceCount = 1
                    /\ sliceUniforms' =
                         Slots(<< Vec4(1, 0, 0,
                                       RNeg(RDiv(Int2Rat(d),
                                                 RMax(scale'.x, EPSILON)))) >>)
               ELSE /\ hooks'.slice /\ hooks'.uSliceCount = 0
                    /\ sliceUniforms' = Slots(<< >>) ]_vars

\* setSlicePlanes({xPos: d}) has returned at scale 2 with the one plane
\* (1, 0, 0, -d/2)
C14_Witness ==
    /\ last.op = "setSlicePlanes"
    /\ DOMAIN last.arg = {"xPos"}
    /\ last.arg.xPos # 0
    /\ Loaded
    /\ scale.x = Int2Rat(2)
    /\ hooks.slice /\ hooks.uSliceCount = 1
    /\ sliceUniforms = Slots(<< Vec4(1, 0, 0, Rat(-(last.arg.xPos), 2)) >>)

RAbs(a) == <<Abs(a[1]), a[2]>>

\* C15: in freshly computed slice uniforms every active plane has a finite
\* offset of magnitude |d| / max(|s|, 1e-6) for its distance d and scale
\* component s: a zero scale falls back on 1e-6 and a negative one counts by
\* its absolute value.
C15_AbsoluteScaleFloor ==
    (sliceUniforms # Undefined
       /\ sliceUniforms = FreshSliceUniforms(slicePlanes, scale)) =>
        \A k \in NonZeroKeys :
            RAbs(SliceOffset(k)) =
                RDiv(RAbs(Int2Rat(slicePlanes[k])),
                     RMax(RAbs(SliceScale(k)), EPSILON))

\* C16: a setPosition call leaves the clip bounds as they were: the bounds
\* read after the call equal the bounds read before it.
C16_PositionKeepsBounds ==
    [][ last'.op = "setPosition" => getClipBounds(Self)' = getClipBounds(Self) ]_vars

\* C17: with the origin set, geoToScene returns y = altitude(loc) -
\* altitude(origin), an absent altitude being 0, and z of the sign opposite to
\* the latitude difference: negative to the north of the origin, positive to
\* the south; the origin's own location gives (0, 0, 0).
C17_NorthIsNegativeZ ==
    [][ (last'.op = "geoToScene" /\ origin # Null) =>
          LET loc == last'.arg
              v == last'.value
          IN  /\ v.y = AltitudeOr0(loc) - AltitudeOr0(origin)
              /\ loc.latitude > origin.latitude => v.z < 0
              /\ loc.latitude < origin.latitude => v.z > 0
              /\ loc.latitude = origin.latitude => v.z = 0
              /\ ~Different(loc, origin) => v = Vec3(0, 0, 0) ]_vars

\* A location to the north of the origin and above it has been converted
C17_Witness ==
    /\ last.op = "geoToScene"
    /\ origin # Null
    /\ last.arg.latitude > origin.latitude
    /\ last.value.z < 0
    /\ last.value.y > 0

\* C18: calculateDistance is symmetric in its two arguments, never negative,
\* zero for two equal locations, the same whatever the origin is (null or
\* any location), and it leaves the origin as it was.
C18_DistanceSymmetric ==
    [][ last'.op = "calculateDistance" =>
          LET loc1 == last'.arg[1]
              loc2 == last'.arg[2]
          IN  /\ last'.value = calculateDistance(Self, loc2, loc1)
              /\ last'.value >= 0
              /\ loc1 = loc2 => last'.value = 0
              /\ \A o \in GeoLocation \cup {Null} :
                    last'.value
                      = calculateDistance([Self EXCEPT !.origin = o], loc1, loc2)
              /\ origin' = origin ]_vars

\* A positive distance between two locations of different latitudes and
\* longitudes has been computed while the origin was set
C18_Witness ==
    /\ last.op = "calculateDistance"
    /\ last.arg[1].latitude # last.arg[2].latitude
    /\ last.arg[1].longitude # last.arg[2].longitude
    /\ last.value > 0
    /\ origin # Null

\* C19: reset sets the origin to null whatever the state was, and the
\* geoToScene call that follows it makes its argument the new origin and
\* returns (0, altitude or 0, 0).
C19_ResetThenReanchor ==
    [][ /\ last'.op = "reset" => origin' = Null
        /\ (last.op = "reset" /\ last'.op = "geoToScene") =>
              /\ origin' = last'.arg
              /\ last'.value = Vec3(0, AltitudeOr0(last'.arg), 0) ]_vars

\* reset has just been called and the origin is null
C19_Witness ==
    /\ last.op = "reset"
    /\ origin = Null

\* C20: a scene loaded with a location while no origin is set makes that
\* location the origin and puts the container at (0, surfaceY, 0); a scene
\* loaded with a location while an origin is set leaves the origin as it
\* is; and the origin changes through nothing but such a first load, the
\* Reset Origin button and dispose.
C20_FirstSceneIsOrigin ==
    [][ /\ (last'.op = "loadNeRFModel" /\ last'.arg[2] # Undefined) =>
              IF origin = Null
              THEN /\ origin' = last'.arg[2]
                   /\ position' = Vec3(0, platformConstraints.surfaceY, 0)
              ELSE origin' = origin
        /\ origin' # origin =>
              \/ last'.op \in {"reset", "dispose"}
              \/ /\ origin = Null
                 /\ last'.op = "loadNeRFModel"
                 /\ last'.arg[2] # Undefined ]_vars

\* A further scene has been loaded to the north or south of the origin, on a
\* raised platform, and the origin is still the first scene's location
C20_Witness ==
    /\ last.op = "loadNeRFModel"
    /\ last.arg[2] # Undefined
    /\ origin # Null
    /\ Different(last.arg[2], origin)
    /\ position.z # 0
    /\ position.y = 1
    /\ platformConstraints.surfaceY = 1

\* C21: the container holds at most one splat, the one getCurrentModel
\* returns, and none when it returns null; a model replaced by a load is
\* out of the container and disposed from that load on, also while its own
\* auto-scale poll is still running.
C21_OneModelAtATime ==
    /\ [](/\ Cardinality(children) <= 1
          /\ children = {getCurrentModel(Self)} \ {NoModel}
          /\ \A m \in polling \ {currentModel} :
                m \in disposed /\ m \notin children)
    /\ [][ (/\ last'.op = "loadNeRFModel"
             /\ currentModel # NoModel
             /\ currentModel # last'.arg[1]) =>
                /\ currentModel \notin children'
                /\ currentModel \in disposed'
                /\ children' = {last'.arg[1]} ]_vars

\* A second model has been loaded while the first was still polling: the
\* container holds the second one alone and the first is disposed
C21_Witness ==
    /\ last.op = "loadNeRFModel"
    /\ currentModel = last.arg[1]
    /\ children = {currentModel}
    /\ polling \ {currentModel} # {}
    /\ polling \ {currentModel} \subseteq disposed

\* The index k loadNextScene calls, each completed before the next, lead to
RECURSIVE NextTimes(_, _)
NextTimes(i, k) == IF k = 0 THEN i ELSE NextTimes(nextIndex(i), k - 1)

\* The call that has just begun its load
Begun == pending[Len(pending)]

\* C22: loadNextScene from index i loads scene (i + 1) mod N, 0 from -1;
\* loadPreviousScene loads i - 1 from i > 0 and N - 1 from 0 or -1; a call
\* that completes alone makes that index the current one.  Hence N
\* loadNextScene calls from a loaded scene visit every scene once and come
\* back to it, N calls from -1 visit every scene once, and loadNextScene
\* then loadPreviousScene from a loaded scene comes back to it.
C22_NavigationWraps ==
    /\ [][ LET i == currentSceneIndex
               N == SceneCount
               next == IF i = -1 THEN 0 ELSE (i + 1) % N
               prev == IF i > 0 THEN i - 1 ELSE N - 1
           IN  /\ last'.op = "loadNextScene" =>
                     /\ Begun'.index = next
                     /\ Begun'.scene = NARRATIVE_SCENES[next + 1]
                     /\ source'[currentModel'] = NARRATIVE_SCENES[next + 1].url
               /\ last'.op = "loadPreviousScene" =>
                     /\ Begun'.index = prev
                     /\ Begun'.scene = NARRATIVE_SCENES[prev + 1]
                     /\ source'[currentModel'] = NARRATIVE_SCENES[prev + 1].url
               /\ (last.op = "loadNextScene" /\ last'.op = "onSceneChanged"
                     /\ Len(pending) = 1) =>
                     /\ currentSceneIndex' = next
                     /\ currentScene' = NARRATIVE_SCENES[next + 1]
               /\ (last.op = "loadPreviousScene" /\ last'.op = "onSceneChanged"
                     /\ Len(pending) = 1) =>
                     /\ currentSceneIndex' = prev
                     /\ currentScene' = NARRATIVE_SCENES[prev + 1] ]_vars
    /\ [](LET N == SceneCount
          IN  /\ \A i \in 0..(N - 1) :
                    /\ {NextTimes(i, k) : k \in 1..N} = 0..(N - 1)
                    /\ NextTimes(i, N) = i
                    /\ prevIndex(nextIndex(i)) = i
              /\ {NextTimes(-1, k) : k \in 1..N} = 0..(N - 1))

\* loadNextScene called on the last scene has completed: the first scene is
\* the current one again
C22_Witness ==
    /\ last.op = "onSceneChanged"
    /\ last.value = "loadNextScene"
    /\ last.arg[2] = 0
    /\ currentSceneIndex = 0
    /\ currentScene = NARRATIVE_SCENES[1]
    /\ source[currentModel] = NARRATIVE_SCENES[1].url
    /\ NARRATIVE_SCENES[SceneCount].url \in {source[m] : m \in disposed}

\* C23: loadSceneById with an id of no scene and loadSceneByIndex with an
\* index outside 0..N-1 reject with "not found" and leave the current scene,
\* the current index, the loaded model, the container and the origin as they
\* were; no continuation is left behind that would call onSceneChanged.
\* Every other id or index starts a load.
C23_NotFoundTouchesNothing ==
    [][ (last'.op \in {"loadSceneById", "loadSceneByIndex"}) =>
          LET known ==
                IF last'.op = "loadSceneById"
                THEN \E i \in 1..SceneCount : NARRATIVE_SCENES[i].id = last'.arg
                ELSE last'.arg \in 0..(SceneCount - 1)
          IN  IF known THEN last'.value = "loading"
              ELSE /\ last'.value = "not found"
                   /\ currentScene' = currentScene
                   /\ currentSceneIndex' = currentSceneIndex
                   /\ currentModel' = currentModel
                   /\ children' = children
                   /\ disposed' = disposed
                   /\ source' = source
                   /\ origin' = origin
                   /\ position' = position
                   /\ hooks' = hooks
                   /\ pending' = pending ]_vars

\* With a scene loaded, the index just past the last scene was rejected
C23_Witness ==
    /\ last.op = "loadSceneByIndex"
    /\ last.arg = SceneCount
    /\ last.value = "not found"
    /\ currentScene # Null
    /\ currentModel # NoModel
    /\ origin # Null

\* A latitude in [-90, 90] and a longitude in [-180, 180]
ValidCoordinate(location) ==
    /\ -90 <= location.latitude /\ location.latitude <= 90
    /\ -180 <= location.longitude /\ location.longitude <= 180

InvalidCoordinate == [error |-> "InvalidCoordinate"]

\* C24: setOrigin and geoToScene given a latitude outside [-90, 90] or a
\* longitude outside [-180, 180] fail with InvalidCoordinate and leave the
\* origin as it was.
C24_InvalidCoordinateRejected ==
    [][ (last'.op \in {"setOrigin", "geoToScene"}
           /\ ~ValidCoordinate(last'.arg)) =>
          /\ last'.value = InvalidCoordinate
          /\ origin' = origin ]_vars

\* C25: platform constraints with a non-positive size or a non-positive clip
\* height are rejected with InvalidConfiguration: no loader is ever
\* configured with them, and no clip box it computes is degenerate or
\* inverted.
C25_InvalidConfigurationRejected ==
    /\ platformConstraints.size > 0
    /\ RLt(RZero, ClipHeightOf(platformConstraints))
    /\ clipUniforms # Undefined =>
          VecLt(clipUniforms.min, clipUniforms.max)

\* C26: when the poll of a splat ends and that splat is no longer the current
\* model, the container scale, the clip uniforms and the shader hooks stay
\* as they were.
C26_StalePollKeepsScale ==
    [][ \A m \in polling \ polling' :
          m # currentModel =>
            /\ scale' = scale
            /\ clipUniforms' = clipUniforms
            /\ hooks' = hooks ]_vars

\* C27: currentSceneIndex is -1 with currentScene null, or an index of
\* NARRATIVE_SCENES with currentScene the scene at it.  The two change only
\* in the continuation of a loadScene whose loadNeRFModel call returned;
\* that continuation calls onSceneChanged once, with the scene and index just
\* recorded, and no other step calls it.  When no load is waiting any more,
\* the recorded scene is the one whose URL the current model was created
\* from.
C27_RecordedSceneIsLoadedScene ==
    /\ [](/\ \/ currentSceneIndex = -1 /\ currentScene = Null
             \/ /\ currentSceneIndex \in 0..(SceneCount - 1)
                /\ currentScene = NARRATIVE_SCENES[currentSceneIndex + 1]
          /\ (pending = << >> /\ currentScene # Null) =>
                /\ currentModel # NoModel
                /\ source[currentModel] = currentScene.url)
    /\ [][ /\ (currentScene' # currentScene
                \/ currentSceneIndex' # currentSceneIndex) =>
                /\ pending # << >>
                /\ Head(pending).loaded
                /\ last'.op = "onSceneChanged"
           /\ (pending # << >> /\ pending' = Tail(pending)
                /\ Head(pending).loaded) =>
                last'.op = "onSceneChanged"
           /\ last'.op = "onSceneChanged" =>
                /\ pending # << >>
                /\ pending' = Tail(pending)
                /\ Head(pending).loaded
                /\ last'.arg = <<Head(pending).scene, Head(pending).index>>
                /\ last'.arg = <<currentScene', currentSceneIndex'>> ]_vars

\* Two loads of different scenes overlap: both wait for their continuation,
\* the model is the one of the second and the recorded scene is still a third
C27_Witness ==
    /\ Len(pending) = 2
    /\ pending[1].loaded /\ pending[2].loaded
    /\ pending[1].scene # pending[2].scene
    /\ source[currentModel] = pending[2].scene.url
    /\ currentScene # Null
    /\ currentScene.url # source[currentModel]

\* The goToScene calls waiting for their load to end
GoToSceneWaiting == {i \in 1..Len(pending) : pending[i].caller = "goToScene"}

\* C28: a goToScene call made while isLoadingScene is true, or for the
\* index that is already current, returns without starting a load; every
\* other goToScene call sets isLoadingScene.  isLoadingScene is true exactly
\* while one goToScene call waits for its load to end, and the end of that
\* load, completed or rejected, sets it back to false.
C28_GoToSceneSerialized ==
    /\ [](/\ Cardinality(GoToSceneWaiting) <= 1
          /\ isLoadingScene <=> GoToSceneWaiting # {})
    /\ [][ /\ last'.op = "goToScene" =>
                IF isLoadingScene \/ last'.arg = currentSceneIndex
                THEN /\ last'.value = "returned"
                     /\ pending' = pending
                     /\ currentModel' = currentModel
                     /\ disposed' = disposed
                     /\ source' = source
                     /\ polling' = polling
                     /\ isLoadingScene' = isLoadingScene
                ELSE /\ last'.value \in {"loading", "not found"}
                     /\ isLoadingScene'
                     /\ Len(pending') = Len(pending) + 1
                     /\ Begun'.caller = "goToScene"
                     /\ Begun'.loaded <=> last'.value = "loading"
           /\ (pending # << >> /\ pending' = Tail(pending)
                /\ Head(pending).caller = "goToScene") =>
                ~isLoadingScene' ]_vars

\* A goToScene for another scene returned while a goToScene load was in
\* progress
C28_Witness ==
    /\ last.op = "goToScene"
    /\ last.value = "returned"
    /\ last.arg # currentSceneIndex
    /\ last.arg \in 0..(SceneCount - 1)
    /\ isLoadingScene
    /\ GoToSceneWaiting # {}

\* C29: the poll of a splat makes at most 100 attempts.  When it gives up,
\* after the 100th, the container scale, the clip uniforms and the shader
\* hooks stay as they were.  When it finds geometry, it multiplies the
\* container scale by 0.9 * size / maxDimension, a factor below 1, exactly
\* when maxDimension exceeds 0.9 * size, and leaves the scale alone
\* otherwise: the scale never grows.
C29_PollBoundedShrinkOnly ==
    /\ [](\A m \in DOMAIN attempts : attempts[m] <= 100)
    /\ [][ /\ last'.op = "checkLoaded" =>
                /\ attempts[last'.arg] < 100
                /\ attempts'[last'.arg] = attempts[last'.arg] + 1
                /\ scale' = scale
           /\ last'.op = "waitForModelAndAutoScale" =>
                LET splat == last'.arg[1]
                    d == last'.arg[2]
                    size == platformConstraints.size
                    factor == Rat(size * 9, 10 * d)
                IN  /\ splat \in polling /\ splat \notin polling'
                    /\ IF ~last'.value
                       THEN /\ attempts[splat] = 100
                            /\ scale' = scale
                            /\ clipUniforms' = clipUniforms
                            /\ hooks' = hooks
                       ELSE /\ attempts[splat] < 100
                            /\ IF 10 * d > 9 * size
                               THEN /\ RLt(factor, Int2Rat(1))
                                    /\ scale' = Vec3(RMul(scale.x, factor),
                                                     RMul(scale.y, factor),
                                                     RMul(scale.z, factor))
                               ELSE scale' = scale
                            /\ ~RLt(RAbs(scale.x), RAbs(scale'.x)) ]_vars

\* After some polls that found nothing, the poll of a model wider than the
\* platform found geometry and the container was scaled down
C29_Witness ==
    /\ last.op = "waitForModelAndAutoScale"
    /\ last.value
    /\ last.arg[2] = LargeModelSize
    /\ attempts[last.arg[1]] > 0
    /\ RLt(scale.x, Int2Rat(1))

\* C30: the container's Y position is the platform surface Y plus the
\* recorded modelYOffset, whatever slider changes, scene loads and Reset
\* Transforms were made.
C30_YIsSurfacePlusOffset ==
    position.y = platformConstraints.surfaceY + modelYOffset


=============================================================================
